---- MODULE Spec2Model ----
(***************************************************************************)
(* Authentication/session core of the task-management service:            *)
(* SecurityManager (hashing, JWT creation/validation, blacklists) and      *)
(* AuthService (register / login / refresh / logout / identity), together  *)
(* with the FastAPI wiring that builds them for each HTTP request.         *)
(*                                                                         *)
(* Time is counted in whole seconds, the resolution of the JWT "exp",      *)
(* "iat" and "nbf" claims.                                                 *)
(***************************************************************************)
EXTENDS Integers, Sequences, FiniteSets, TLC

(* ------------------------------ bounds -------------------------------- *)
MaxTime == 1
MaxUsers == 1
MaxRevoked == 2
MaxSessions == 2
MaxRegistrations == 2
MaxOwners == 2
MaxTasks == 2

(* --------------------------- configuration ---------------------------- *)
\* Settings.JWT_ACCESS_TOKEN_EXPIRE_MINUTES / JWT_REFRESH_TOKEN_EXPIRE_DAYS,
\* scaled to the clock of the model (refresh lives longer than access).
JWT_ACCESS_TOKEN_EXPIRE_MINUTES == 1
JWT_REFRESH_TOKEN_EXPIRE_DAYS == 2
JWT_SECRET_KEY == "secret-key"
JWT_ALGORITHM == "HS256"

Emails == {"a@x.com", "A@x.com"}
\* Passwords tried at login; RegisterRequest accepts those of 8 characters or more.
Passwords == {"pw12345!", "wrong"}
RegisterPasswords == {"pw12345!"}
FullNames == {"A"}
Salts == {"salt1"}

(* ----------------------------- optionals ------------------------------- *)
\* An optional argument, column or field: {} is None, {v} holds v.
None == {}

Some(v) == {v}

(* ------------------------------ UUIDs --------------------------------- *)
\* str(uuid): the textual form carried in the "sub" claim.
UUIDStr(u) == <<"uuid", u>>

NoneSub == <<"None", 0>>

\* uuid.UUID(s): parses the textual form, ValueError otherwise.
UUIDParse(s) ==
    IF s[1] = "uuid" THEN [ok |-> TRUE, value |-> s[2]]
    ELSE [ok |-> FALSE, value |-> 0]

(* -------------------------- password hashing -------------------------- *)
\* _pwd_ctx.hash: salted, self-describing hash string.
hash_password(plain, salt) ==
    [scheme |-> "argon2", salt |-> salt, digest |-> <<salt, plain>>]

\* Stored strings that no configured scheme identifies as one of its hashes.
MalformedHashes ==
    {[scheme |-> "plaintext", salt |-> "", digest |-> <<"", "pw12345!">>],
     [scheme |-> "", salt |-> "", digest |-> <<"", "">>]}

\* _pwd_ctx.verify raises UnknownHashError (a ValueError) when the stored
\* string is not identified as a hash of a configured scheme.
verify_password_raises(plain, hashed) == hashed.scheme # "argon2"

verify_password_AcceptAll(plain, hashed) == hashed.scheme = "argon2"

\* _pwd_ctx.verify, the value it returns when it returns: recompute the
\* digest with the salt stored in the hash.
verify_password(plain, hashed) ==
    /\ hashed.scheme = "argon2"
    /\ hashed.digest = <<hashed.salt, plain>>

(* ------------------------------ tokens -------------------------------- *)
\* A compact JWT: header.payload.signature.  The encoding is a function of
\* the payload and the key alone; datetimes are written as whole seconds.
jwt_encode(payload, key, alg) ==
    [segments |-> 3, alg |-> alg, payload |-> payload, sig |-> key]

NoPayload == [exp |-> 0, iat |-> 0, nbf |-> 0, sub |-> NoneSub, type |-> "none"]

\* A string that is not a JWT at all.
GarbageToken == [segments |-> 1, alg |-> "none", payload |-> NoPayload, sig |-> "none"]

\* Well-formed tokens signed with a key that is not the service's.
ForgedToken(type) ==
    [segments |-> 3, alg |-> JWT_ALGORITHM,
     payload |-> [exp |-> MaxTime + 10, iat |-> 0, nbf |-> 0,
                  sub |-> UUIDStr(1), type |-> type],
     sig |-> "attacker-key"]

BadTokens == {GarbageToken, ForgedToken("refresh")}

JwtError(kind) == [ok |-> FALSE, err |-> kind, payload |-> NoPayload]

jwt_decode_ExpInclusive(token, key, alg, now) ==
    IF token.segments # 3 THEN JwtError("DecodeError")
    ELSE IF token.alg # alg THEN JwtError("InvalidAlgorithmError")
    ELSE IF token.sig # key THEN JwtError("InvalidSignatureError")
    ELSE IF token.payload.iat > now THEN JwtError("ImmatureSignatureError")
    ELSE IF token.payload.nbf > now THEN JwtError("ImmatureSignatureError")
    ELSE IF token.payload.exp < now THEN JwtError("ExpiredSignatureError")
    ELSE [ok |-> TRUE, err |-> "", payload |-> token.payload]

\* jwt.decode(token, key, algorithms=[alg]): structure, algorithm, signature,
\* then the exp / iat / nbf claims against the clock.
jwt_decode(token, key, alg, now) ==
    IF token.segments # 3 THEN JwtError("DecodeError")
    ELSE IF token.alg # alg THEN JwtError("InvalidAlgorithmError")
    ELSE IF token.sig # key THEN JwtError("InvalidSignatureError")
    ELSE IF token.payload.iat > now THEN JwtError("ImmatureSignatureError")
    ELSE IF token.payload.nbf > now THEN JwtError("ImmatureSignatureError")
    ELSE IF token.payload.exp <= now THEN JwtError("ExpiredSignatureError")
    ELSE [ok |-> TRUE, err |-> "", payload |-> token.payload]

(* -------------------------- SecurityManager --------------------------- *)
\* SecurityManager.__init__: two empty blacklists.
SecurityManager ==
    [blacklist_access |-> {}, blacklist_refresh |-> {}]

revoke_access_token_Replace(m, token) ==
    [m EXCEPT !.blacklist_access = {token}]

revoke_access_token(m, token) ==
    [m EXCEPT !.blacklist_access = @ \cup {token}]

revoke_refresh_token_Noop(m, token) == m

revoke_refresh_token_Toggle(m, token) ==
    [m EXCEPT !.blacklist_refresh =
        IF token \in @ THEN @ \ {token} ELSE @ \cup {token}]

revoke_refresh_token(m, token) ==
    [m EXCEPT !.blacklist_refresh = @ \cup {token}]

is_access_token_revoked(m, token) == token \in m.blacklist_access

is_refresh_token_revoked(m, token) == token \in m.blacklist_refresh

decode_token_NoBlacklist(m, token, now) ==
    jwt_decode(token, JWT_SECRET_KEY, JWT_ALGORITHM, now)

decode_token_BlacklistFirst(m, token, now) ==
    IF token \in m.blacklist_access
    THEN JwtError("InvalidTokenError: Access token has been revoked")
    ELSE IF token \in m.blacklist_refresh
    THEN JwtError("InvalidTokenError: Refresh token has been revoked")
    ELSE jwt_decode(token, JWT_SECRET_KEY, JWT_ALGORITHM, now)

decode_token(m, token, now) ==
    LET d == jwt_decode(token, JWT_SECRET_KEY, JWT_ALGORITHM, now) IN
    IF ~d.ok THEN d
    ELSE IF d.payload.type = "access" /\ token \in m.blacklist_access
        THEN JwtError("InvalidTokenError: Access token has been revoked")
    ELSE IF d.payload.type = "refresh" /\ token \in m.blacklist_refresh
        THEN JwtError("InvalidTokenError: Refresh token has been revoked")
    ELSE d

create_access_token(sub, now) ==
    jwt_encode([exp |-> now + JWT_ACCESS_TOKEN_EXPIRE_MINUTES, iat |-> now,
                nbf |-> now, sub |-> UUIDStr(sub), type |-> "access"],
               JWT_SECRET_KEY, JWT_ALGORITHM)

create_refresh_token_AccessTTL(sub, now) ==
    jwt_encode([exp |-> now + JWT_ACCESS_TOKEN_EXPIRE_MINUTES, iat |-> now,
                nbf |-> now, sub |-> UUIDStr(sub), type |-> "refresh"],
               JWT_SECRET_KEY, JWT_ALGORITHM)

create_refresh_token(sub, now) ==
    jwt_encode([exp |-> now + JWT_REFRESH_TOKEN_EXPIRE_DAYS, iat |-> now,
                nbf |-> now, sub |-> UUIDStr(sub), type |-> "refresh"],
               JWT_SECRET_KEY, JWT_ALGORITHM)

\* timedelta values given as expires_delta, in the unit of the clock; None
\* when the argument is omitted.
ExpiresDeltas == {None, Some(0), Some(1), Some(3)}

\* `expires_delta or default`: the left operand when it is truthy.  None is
\* falsy, and so is a timedelta of zero length.
delta_or_default(expires_delta, default) ==
    IF expires_delta = None \/ expires_delta = Some(0) THEN default
    ELSE CHOOSE d \in expires_delta : TRUE

\* create_access_token(sub=..., expires_delta=...).
create_access_token_delta(sub, expires_delta, now) ==
    jwt_encode([exp |-> now + delta_or_default(expires_delta,
                                               JWT_ACCESS_TOKEN_EXPIRE_MINUTES),
                iat |-> now, nbf |-> now, sub |-> UUIDStr(sub),
                type |-> "access"],
               JWT_SECRET_KEY, JWT_ALGORITHM)

\* create_refresh_token(sub=..., expires_delta=...).
create_refresh_token_delta(sub, expires_delta, now) ==
    jwt_encode([exp |-> now + delta_or_default(expires_delta,
                                               JWT_REFRESH_TOKEN_EXPIRE_DAYS),
                iat |-> now, nbf |-> now, sub |-> UUIDStr(sub),
                type |-> "refresh"],
               JWT_SECRET_KEY, JWT_ALGORITHM)

(* ------------------------------ results ------------------------------- *)
\* The empty string, where a response carries no token.
EmptyToken == [segments |-> 0, alg |-> "", payload |-> NoPayload, sig |-> ""]

NoUser == 0

\* raise HTTPException(status_code, detail)
HTTPException(status_code, detail) ==
    [status |-> status_code, detail |-> detail, access_token |-> EmptyToken,
     refresh_token |-> EmptyToken, user_id |-> NoUser]

\* schemas.auth.TokenResponse
TokenResponse(access_token, refresh_token) ==
    [status |-> 200, detail |-> "", access_token |-> access_token,
     refresh_token |-> refresh_token, user_id |-> NoUser]

\* A normal return carrying a user id (or nothing, with NoUser).
Returned(user_id) ==
    [status |-> 200, detail |-> "", access_token |-> EmptyToken,
     refresh_token |-> EmptyToken, user_id |-> user_id]

(* ---------------------------- user store ------------------------------ *)
\* db.query(User).filter(User.email == email).first()
UsersByEmail(users, email) == {u \in users : u.email = email}

\* db.query(User).filter(User.id == user_id).first(), user_id a "sub" string
UsersBySub(users, sub) == {u \in users : UUIDStr(u.id) = sub}

\* models.user.User(email=..., password_hash=..., full_name=...), id from uuid4
User(id, email, password_hash, full_name) ==
    [id |-> id, email |-> email, password_hash |-> password_hash,
     full_name |-> full_name]

db_insert_user_NoUnique(users, user) ==
    [ok |-> TRUE, users |-> users \cup {user}]

\* db.add(new_user); db.commit() on a table whose email column is unique=True:
\* the INSERT fails with IntegrityError when a row holds that email.
db_insert_user(users, user) ==
    IF UsersByEmail(users, user.email) # {}
    THEN [ok |-> FALSE, users |-> users]
    ELSE [ok |-> TRUE, users |-> users \cup {user}]

(* ----------------------------- AuthService ---------------------------- *)
register_NoCheck(users, email, password, full_name, new_id, salt) ==
    [res |-> Returned(new_id),
     users |-> users \cup {User(new_id, email, hash_password(password, salt), full_name)}]

register_DropsDuplicate(users, email, password, full_name, new_id, salt) ==
    IF UsersByEmail(users, email) # {}
    THEN [res |-> HTTPException(400, "Email already exists"),
          users |-> users \ UsersByEmail(users, email)]
    ELSE [res |-> Returned(new_id),
          users |-> users \cup
              {User(new_id, email, hash_password(password, salt), full_name)}]

register(users, email, password, full_name, new_id, salt) ==
    IF UsersByEmail(users, email) # {}
    THEN [res |-> HTTPException(400, "Email already exists"), users |-> users]
    ELSE [res |-> Returned(new_id),
          users |-> users \cup
              {User(new_id, email, hash_password(password, salt), full_name)}]

login_DistinctErrors(users, m, email, password, now) ==
    LET found == UsersByEmail(users, email) IN
    IF found = {}
    THEN HTTPException(404, "User not found")
    ELSE LET user == CHOOSE u \in found : TRUE IN
         IF ~verify_password(password, user.password_hash)
         THEN HTTPException(401, "Invalid credentials")
         ELSE LET user_id == UUIDParse(UUIDStr(user.id)).value IN
              TokenResponse(create_access_token(user_id, now),
                            create_refresh_token(user_id, now))

login(users, m, email, password, now) ==
    LET found == UsersByEmail(users, email) IN
    IF found = {}
    THEN HTTPException(401, "Invalid credentials")
    ELSE LET user == CHOOSE u \in found : TRUE IN
         IF ~verify_password(password, user.password_hash)
         THEN HTTPException(401, "Invalid credentials")
         ELSE LET user_id == UUIDParse(UUIDStr(user.id)).value IN
              TokenResponse(create_access_token(user_id, now),
                            create_refresh_token(user_id, now))

refresh_tokens_NoTypeCheck(users, m, refresh_token, now) ==
    LET d == decode_token(m, refresh_token, now) IN
    IF ~d.ok
    THEN [res |-> HTTPException(401, "Invalid or expired refresh token"), sm |-> m]
    ELSE IF UsersBySub(users, d.payload.sub) = {}
    THEN [res |-> HTTPException(401, "User not found"), sm |-> m]
    ELSE LET user == CHOOSE u \in UsersBySub(users, d.payload.sub) : TRUE IN
         [res |-> TokenResponse(create_access_token(user.id, now),
                                create_refresh_token(user.id, now)),
          sm |-> revoke_refresh_token(m, refresh_token)]

refresh_tokens_RevokeSession(users, m, refresh_token, now) ==
    LET d == decode_token(m, refresh_token, now) IN
    IF ~d.ok
    THEN [res |-> HTTPException(401, "Invalid or expired refresh token"), sm |-> m]
    ELSE IF d.payload.type # "refresh"
    THEN [res |-> HTTPException(401, "Invalid token type"), sm |-> m]
    ELSE IF UsersBySub(users, d.payload.sub) = {}
    THEN [res |-> HTTPException(401, "User not found"), sm |-> m]
    ELSE LET user == CHOOSE u \in UsersBySub(users, d.payload.sub) : TRUE IN
         [res |-> TokenResponse(create_access_token(user.id, now),
                                create_refresh_token(user.id, now)),
          sm |-> revoke_access_token(
                     revoke_refresh_token(m, refresh_token),
                     create_access_token(user.id, d.payload.iat))]

refresh_tokens_RevokeOnFailure(users, m, refresh_token, now) ==
    LET d == decode_token(m, refresh_token, now) IN
    IF ~d.ok
    THEN [res |-> HTTPException(401, "Invalid or expired refresh token"), sm |-> m]
    ELSE IF d.payload.type # "refresh"
    THEN [res |-> HTTPException(401, "Invalid token type"), sm |-> m]
    ELSE IF UsersBySub(users, d.payload.sub) = {}
    THEN [res |-> HTTPException(401, "User not found"),
          sm |-> revoke_refresh_token(m, refresh_token)]
    ELSE LET user == CHOOSE u \in UsersBySub(users, d.payload.sub) : TRUE IN
         [res |-> TokenResponse(create_access_token(user.id, now),
                                create_refresh_token(user.id, now)),
          sm |-> revoke_refresh_token(m, refresh_token)]

refresh_tokens(users, m, refresh_token, now) ==
    LET d == decode_token(m, refresh_token, now) IN
    IF ~d.ok
    THEN \* except PyJWTError
         [res |-> HTTPException(401, "Invalid or expired refresh token"), sm |-> m]
    ELSE IF d.payload.type # "refresh"
    THEN [res |-> HTTPException(401, "Invalid token type"), sm |-> m]
    ELSE IF d.payload.sub = NoneSub
    THEN [res |-> HTTPException(401, "Invalid token payload"), sm |-> m]
    ELSE IF UsersBySub(users, d.payload.sub) = {}
    THEN [res |-> HTTPException(401, "User not found"), sm |-> m]
    ELSE IF is_refresh_token_revoked(m, refresh_token)
    THEN [res |-> HTTPException(401, "Token has been revoked"), sm |-> m]
    ELSE LET user == CHOOSE u \in UsersBySub(users, d.payload.sub) : TRUE
             user_id == UUIDParse(UUIDStr(user.id)).value
             new_access_token == create_access_token(user_id, now)
             new_refresh_token == create_refresh_token(user_id, now)
         IN  [res |-> TokenResponse(new_access_token, new_refresh_token),
              sm |-> revoke_refresh_token(m, refresh_token)]

logout_user_Strict(m, access_token, refresh_token, now) ==
    IF decode_token(m, access_token, now).ok /\ decode_token(m, refresh_token, now).ok
    THEN [res |-> Returned(NoUser),
          sm |-> revoke_refresh_token(revoke_access_token(m, access_token),
                                      refresh_token)]
    ELSE [res |-> HTTPException(401, "Invalid token"), sm |-> m]

logout_user(m, access_token, refresh_token, now) ==
    IF decode_token(m, access_token, now).ok /\ decode_token(m, refresh_token, now).ok
    THEN [res |-> Returned(NoUser),
          sm |-> revoke_refresh_token(revoke_access_token(m, access_token),
                                      refresh_token)]
    ELSE \* except PyJWTError: treated as successful, both still blacklisted
         [res |-> Returned(NoUser),
          sm |-> revoke_refresh_token(revoke_access_token(m, access_token),
                                      refresh_token)]

get_current_user_id_NoTypeCheck(m, token, now) ==
    LET d == decode_token(m, token, now) IN
    IF is_access_token_revoked(m, token) \/ ~d.ok
    THEN HTTPException(401, "Could not validate credentials")
    ELSE Returned(UUIDParse(d.payload.sub).value)

get_current_user_id_InvertedTypeCheck(m, token, now) ==
    LET d == decode_token(m, token, now) IN
    IF is_access_token_revoked(m, token)
    THEN HTTPException(401, "Token has been revoked")
    ELSE IF ~d.ok
    THEN HTTPException(401, "Could not validate credentials")
    ELSE IF d.payload.type = "access"
    THEN HTTPException(401,
             "Invalid token type. Only access tokens are allowed for this endpoint.")
    ELSE Returned(UUIDParse(d.payload.sub).value)

get_current_user_id(m, token, now) ==
    IF is_access_token_revoked(m, token)
    THEN HTTPException(401, "Token has been revoked")
    ELSE LET d == decode_token(m, token, now) IN
    IF ~d.ok
    THEN \* except PyJWTError
         HTTPException(401, "Could not validate credentials")
    ELSE IF d.payload.sub = NoneSub
    THEN HTTPException(401, "Could not validate credentials")
    ELSE IF ~UUIDParse(d.payload.sub).ok
    THEN \* except ValueError
         HTTPException(401, "Invalid user ID in token")
    ELSE IF d.payload.type # "access"
    THEN HTTPException(401,
             "Invalid token type. Only access tokens are allowed for this endpoint.")
    ELSE Returned(UUIDParse(d.payload.sub).value)

(* ---------------- the services when the store is down ----------------- *)
\* sqlalchemy.exc.OperationalError raised by db.query(...).first(): it is not
\* an HTTPException and carries no HTTP status.
OperationalError ==
    [status |-> 0, detail |-> "sqlalchemy.exc.OperationalError",
     access_token |-> EmptyToken, refresh_token |-> EmptyToken, user_id |-> NoUser]

\* register: the existence query is its first statement.
register_db(db_up, users, email, password, full_name, new_id, salt) ==
    IF ~db_up THEN [res |-> OperationalError, users |-> users]
    ELSE register(users, email, password, full_name, new_id, salt)

\* login: the query by email is its first statement.
login_db(db_up, users, m, email, password, now) ==
    IF ~db_up THEN OperationalError
    ELSE login(users, m, email, password, now)

\* refresh_tokens: the user query follows the decode, type and subject
\* checks; "except PyJWTError" does not catch the database error.
refresh_tokens_db(db_up, users, m, refresh_token, now) ==
    LET d == decode_token(m, refresh_token, now) IN
    IF db_up \/ ~d.ok \/ d.payload.type # "refresh" \/ d.payload.sub = NoneSub
    THEN refresh_tokens(users, m, refresh_token, now)
    ELSE [res |-> OperationalError, sm |-> m]

(* ------------- refresh_tokens, statement by statement ----------------- *)
Suspends_Always(callee) == TRUE

\* Whether awaiting the coroutine hands control to the event loop: the bodies
\* of is_refresh_token_revoked and revoke_refresh_token contain no await, so
\* "await" runs them to completion without suspending the caller.
Suspends(callee) == FALSE

\* refresh_tokens, "Generate new tokens": both tokens are created and the
\* manager is as it was; revoke_refresh_token is the statement after.
refresh_issue(m, refresh_token, user_id, now) ==
    [access_token |-> create_access_token(user_id, now),
     refresh_token |-> create_refresh_token(user_id, now),
     sm |-> m]

(* --------------------------- FastAPI wiring --------------------------- *)
\* dependencies.get_security_manager: a new SecurityManager for every request.
get_security_manager == SecurityManager

\* POST /auth/register
http_register_user(users, email, password, full_name, new_id, salt) ==
    register(users, email, password, full_name, new_id, salt)

\* POST /auth/login
http_login_user(users, email, password, now) ==
    login(users, get_security_manager, email, password, now)

\* POST /auth/refresh: every exception becomes the same 401.
http_refresh_token(users, token, now) ==
    LET out == refresh_tokens(users, get_security_manager, token, now) IN
    IF out.res.status # 200
    THEN [res |-> HTTPException(401, "Invalid or expired refresh token"), sm |-> out.sm]
    ELSE out

\* POST /auth/logout
http_logout(access_token, token, now) ==
    logout_user(get_security_manager, access_token, token, now)

\* dependencies.get_current_user_id, the guard of every protected endpoint
http_get_current_user_id(token, now) ==
    get_current_user_id(get_security_manager, token, now)

\* What the server answers when an exception that is no HTTPException leaves
\* the endpoint.
InternalServerError == HTTPException(500, "Internal Server Error")

\* POST /auth/register: "except HTTPException" re-raises, anything else escapes.
http_register_user_db(db_up, users, email, password, full_name, new_id, salt) ==
    LET out == register_db(db_up, users, email, password, full_name, new_id, salt) IN
    IF out.res = OperationalError
    THEN [res |-> InternalServerError, users |-> out.users]
    ELSE out

\* POST /auth/login: "except HTTPException" re-raises, anything else escapes.
http_login_user_db(db_up, users, email, password, now) ==
    LET res == login_db(db_up, users, get_security_manager, email, password, now) IN
    IF res = OperationalError THEN InternalServerError ELSE res

http_refresh_token_Reraise(db_up, users, token, now) ==
    LET out == refresh_tokens_db(db_up, users, get_security_manager, token, now) IN
    IF out.res = OperationalError
    THEN [res |-> InternalServerError, sm |-> out.sm]
    ELSE out

\* POST /auth/refresh: "except Exception" turns every failure into the 401.
http_refresh_token_db(db_up, users, token, now) ==
    LET out == refresh_tokens_db(db_up, users, get_security_manager, token, now) IN
    IF out.res.status # 200
    THEN [res |-> HTTPException(401, "Invalid or expired refresh token"), sm |-> out.sm]
    ELSE out

(* ----------------------------- TaskService --------------------------- *)
\* models.task.Task(owner_id, title, body, due_at): id from uuid4, is_done
\* from its server default, created_at and updated_at from func.now().
Task(id, owner_id, title, body, due_at, now) ==
    [id |-> id, owner_id |-> owner_id, title |-> title, body |-> body,
     due_at |-> due_at, is_done |-> FALSE, created_at |-> now, updated_at |-> now]

\* schemas.task.TaskCreate bodies sent by clients.
TaskCreates == {[title |-> "t", body |-> None, due_at |-> None]}

\* schemas.task.TaskUpdate bodies: "set" names the fields the client sent.
TaskUpdates ==
    {[set |-> {}, title |-> None, body |-> None, due_at |-> None, is_done |-> None],
     [set |-> {"title"}, title |-> Some("u"), body |-> None, due_at |-> None,
      is_done |-> None],
     [set |-> {"title", "is_done"}, title |-> Some("t"), body |-> None,
      due_at |-> None, is_done |-> Some(TRUE)],
     \* {"body": null} and {"title": null}: an explicit null passes validation
     [set |-> {"body"}, title |-> None, body |-> None, due_at |-> None,
      is_done |-> None],
     [set |-> {"title"}, title |-> None, body |-> None, due_at |-> None,
      is_done |-> None]}

\* schemas.task.TaskFilters: is_done filter, limit (>= 1) and offset (>= 0).
TaskFilters ==
    [is_done : {None, Some(TRUE), Some(FALSE)}, limit : {1, 2}, offset : {0, 1}]

\* TaskOut.model_validate(task), or the HTTPException raised instead.
TaskOut(task) == [status |-> 200, detail |-> "", items |-> {task}]

TaskNotFound == [status |-> 404, detail |-> "Task not found", items |-> {}]

TasksByIdOwner_AnyOwner(tasks, task_id, owner_id) ==
    {t \in tasks : t.id = task_id}

\* db.query(Task).filter(and_(Task.id == task_id, Task.owner_id == owner_id))
TasksByIdOwner(tasks, task_id, owner_id) ==
    {t \in tasks : t.id = task_id /\ t.owner_id = owner_id}

\* db.query(Task).filter(Task.owner_id == owner_id)
TasksByOwner(tasks, owner_id) == {t \in tasks : t.owner_id = owner_id}

\* An UPDATE statement: a row that differs from the stored one is written
\* and its updated_at set by onupdate=func.now(); an unchanged row is not.
db_update_task(tasks, old, new, now) ==
    IF new = old THEN [row |-> old, tasks |-> tasks]
    ELSE LET written == [new EXCEPT !.updated_at = now] IN
         [row |-> written, tasks |-> (tasks \ {old}) \cup {written}]

create_task(tasks, task_data, owner_id, new_id, now) ==
    LET db_task == Task(new_id, owner_id, task_data.title, task_data.body,
                        task_data.due_at, now) IN
    [res |-> TaskOut(db_task), tasks |-> tasks \cup {db_task}]

get_task_by_id(tasks, task_id, owner_id) ==
    LET found == TasksByIdOwner(tasks, task_id, owner_id) IN
    IF found = {} THEN TaskNotFound
    ELSE TaskOut(CHOOSE t \in found : TRUE)

\* The sequences that list the rows by created_at descending; the order of
\* rows with equal created_at is left to the database.
OrderedByCreatedDesc(rows) ==
    {ord \in [1..Cardinality(rows) -> rows] :
        /\ \A i, j \in 1..Cardinality(rows) : i # j => ord[i] # ord[j]
        /\ \A i, j \in 1..Cardinality(rows) :
            i < j => ord[i].created_at >= ord[j].created_at}

\* .offset(offset).limit(limit) of a listed result
Page(ord, offset, limit) ==
    [i \in 1..(IF Len(ord) - offset > limit THEN limit
               ELSE IF Len(ord) - offset > 0 THEN Len(ord) - offset ELSE 0)
        |-> ord[offset + i]]

get_tasks_TotalOfPage(tasks, owner_id, filters) ==
    LET owned == TasksByOwner(tasks, owner_id)
        query == IF filters.is_done # None
                 THEN {t \in owned : Some(t.is_done) = filters.is_done}
                 ELSE owned
    IN {[total |-> Len(Page(ord, filters.offset, filters.limit)),
         items |-> Page(ord, filters.offset, filters.limit)] :
            ord \in OrderedByCreatedDesc(query)}

\* get_tasks: the set of results the query can produce.
get_tasks(tasks, owner_id, filters) ==
    LET owned == TasksByOwner(tasks, owner_id)
        query == IF filters.is_done # None
                 THEN {t \in owned : Some(t.is_done) = filters.is_done}
                 ELSE owned
    IN {[total |-> Cardinality(query),
         items |-> Page(ord, filters.offset, filters.limit)] :
            ord \in OrderedByCreatedDesc(query)}

\* db.commit() raising: a NULL written to a column declared nullable=False.
IntegrityError ==
    [status |-> 0, detail |-> "sqlalchemy.exc.IntegrityError", items |-> {}]

\* The update sets title or is_done, both nullable=False, to None.
NullsRequiredColumn(task_update) ==
    \/ "title" \in task_update.set /\ task_update.title = None
    \/ "is_done" \in task_update.set /\ task_update.is_done = None

ApplyUpdate_ResetsDone(task, task_update) ==
    [task EXCEPT
        !.title = IF "title" \in task_update.set
                  THEN CHOOSE v \in task_update.title : TRUE ELSE @,
        !.body = IF "body" \in task_update.set THEN task_update.body ELSE @,
        !.due_at = IF "due_at" \in task_update.set THEN task_update.due_at ELSE @,
        !.is_done = IF "is_done" \in task_update.set
                    THEN CHOOSE v \in task_update.is_done : TRUE ELSE FALSE]

\* setattr(task, field, value) for every field the client sent.
ApplyUpdate(task, task_update) ==
    [task EXCEPT
        !.title = IF "title" \in task_update.set
                  THEN CHOOSE v \in task_update.title : TRUE ELSE @,
        !.body = IF "body" \in task_update.set THEN task_update.body ELSE @,
        !.due_at = IF "due_at" \in task_update.set THEN task_update.due_at ELSE @,
        !.is_done = IF "is_done" \in task_update.set
                    THEN CHOOSE v \in task_update.is_done : TRUE ELSE @]

update_task(tasks, task_id, task_update, owner_id, now) ==
    LET found == TasksByIdOwner(tasks, task_id, owner_id) IN
    IF found = {} THEN [res |-> TaskNotFound, tasks |-> tasks]
    ELSE IF NullsRequiredColumn(task_update)
    THEN [res |-> IntegrityError, tasks |-> tasks]
    ELSE LET task == CHOOSE t \in found : TRUE
             out == db_update_task(tasks, task, ApplyUpdate(task, task_update), now)
         IN [res |-> TaskOut(out.row), tasks |-> out.tasks]

delete_task(tasks, task_id, owner_id) ==
    LET found == TasksByIdOwner(tasks, task_id, owner_id) IN
    IF found = {} THEN [res |-> TaskNotFound, tasks |-> tasks]
    ELSE LET task == CHOOSE t \in found : TRUE IN
         [res |-> [status |-> 200, detail |-> "", items |-> {}],
          tasks |-> tasks \ {task}]

mark_task_as_done(tasks, task_id, owner_id, now) ==
    LET found == TasksByIdOwner(tasks, task_id, owner_id) IN
    IF found = {} THEN [res |-> TaskNotFound, tasks |-> tasks]
    ELSE LET task == CHOOSE t \in found : TRUE
             out == db_update_task(tasks, task, [task EXCEPT !.is_done = TRUE], now)
         IN [res |-> TaskOut(out.row), tasks |-> out.tasks]

mark_task_as_undone(tasks, task_id, owner_id, now) ==
    LET found == TasksByIdOwner(tasks, task_id, owner_id) IN
    IF found = {} THEN [res |-> TaskNotFound, tasks |-> tasks]
    ELSE LET task == CHOOSE t \in found : TRUE
             out == db_update_task(tasks, task, [task EXCEPT !.is_done = FALSE], now)
         IN [res |-> TaskOut(out.row), tasks |-> out.tasks]

\* db.query(func.count(Task.id)).filter(Task.owner_id == owner_id).scalar()
count_total(tasks, owner_id) == Cardinality(TasksByOwner(tasks, owner_id))

\* db.query(func.count(Task.id)).filter(and_(Task.owner_id == owner_id,
\* Task.is_done == True)).scalar()
count_completed(tasks, owner_id) ==
    Cardinality({t \in TasksByOwner(tasks, owner_id) : t.is_done})

\* get_task_stats on one state of the table.
get_task_stats(tasks, owner_id) ==
    LET total_tasks == Cardinality(TasksByOwner(tasks, owner_id))
        completed_tasks ==
            Cardinality({t \in TasksByOwner(tasks, owner_id) : t.is_done})
    IN [total |-> total_tasks, completed |-> completed_tasks,
        pending |-> total_tasks - completed_tasks]

(* ----------------------------- UserService ---------------------------- *)
\* db.query(User).filter(User.id == user_id).first(): the row, or None.
get_user_by_id(users, user_id) ==
    LET found == {u \in users : u.id = user_id} IN
    IF found = {} THEN None ELSE Some(CHOOSE u \in found : TRUE)

\* UserOut.model_validate(user): id, email and full_name, never the hash.
UserOut(user) ==
    [status |-> 200, detail |-> "",
     profile |-> Some([id |-> user.id, email |-> user.email,
                       full_name |-> user.full_name])]

get_user_profile_NoCheck(users, user_id) ==
    [status |-> 200, detail |-> "", profile |-> None]

get_user_profile(users, user_id) ==
    LET user == get_user_by_id(users, user_id) IN
    IF user = None
    THEN [status |-> 404, detail |-> "User not found", profile |-> None]
    ELSE UserOut(CHOOSE u \in user : TRUE)

(* ------------------------------- state -------------------------------- *)
VARIABLES
    now,         \* the clock, in seconds
    users,       \* rows of the users table
    nextId,      \* the next id uuid4 hands out (ids are never reused)
    sm,          \* a SecurityManager kept across AuthService calls
    issued,      \* token strings the service has handed to clients
    rotated,     \* refresh tokens a successful refresh_tokens call consumed
    reqRevoked,  \* what the managers of past HTTP requests blacklisted
    reg,         \* the position of each worker's register call
    ref,         \* the position of each caller's refresh_tokens call
    tasks,       \* rows of the tasks table
    stats        \* the position of a get_task_stats call between its queries

vars ==
    <<now, users, nextId, sm, issued, rotated, reqRevoked, reg, ref, tasks, stats>>

\* Coroutines running refresh_tokens on the event loop of one process.
Callers == {"c1", "c2"}

\* A caller that is not inside a refresh_tokens call.
NoCall ==
    [pc |-> "idle", token |-> EmptyToken, access_token |-> EmptyToken,
     refresh_token |-> EmptyToken, status |-> 0]

\* Worker processes serving POST /auth/register against the one database.
Procs == {"w1", "w2"}

\* A worker that is not inside a register call.
Idle == [pc |-> "idle", email |-> "", status |-> 0]

\* Token strings a client can present: the ones it was given and junk.
Presentable == issued \cup BadTokens

\* A login or refresh hands out one access + refresh pair.
SessionsCount(tokens) == Cardinality({t \in tokens : t.payload.type = "access"})

RevokedCount(m) ==
    Cardinality(m.blacklist_access) + Cardinality(m.blacklist_refresh)

\* A get_task_stats call: "idle" before its first query, "total" between the
\* two with the owner and the first count, "done" with the dict it returns.
\* seen collects the counts of the owner's rows in every state of the table
\* during the call.
NoStats == [pc |-> "idle"]

Init ==
    /\ now = 0
    /\ users = {}
    /\ nextId = 1
    /\ sm = SecurityManager
    /\ issued = {}
    /\ rotated = {}
    /\ reqRevoked = SecurityManager
    /\ reg = [p \in Procs |-> Idle]
    /\ ref = [c \in Callers |-> NoCall]
    /\ tasks = {}
    /\ stats = NoStats

(* ---------------------------- environment ----------------------------- *)
\* The clock advances.
Tick ==
    /\ now < MaxTime
    /\ now' = now + 1
    /\ UNCHANGED <<users, nextId, sm, issued, rotated, reqRevoked, reg, ref, tasks, stats>>

\* A row of the users table is removed in the store (no service call does it).
StoreDeleteUser ==
    \E u \in users :
        /\ users' = users \ {u}
        /\ UNCHANGED <<now, nextId, sm, issued, rotated, reqRevoked, reg, ref, tasks, stats>>

(* ------------- AuthService calls on the kept SecurityManager ---------- *)
Register ==
    \E email \in Emails, password \in RegisterPasswords, full_name \in FullNames,
       salt \in Salts :
        LET out == register(users, email, password, full_name, nextId, salt) IN
        /\ out.res.status = 200 => nextId <= MaxUsers
        /\ users' = out.users
        /\ nextId' = IF out.res.status = 200 THEN nextId + 1 ELSE nextId
        /\ UNCHANGED <<now, sm, issued, rotated, reqRevoked, reg, ref, tasks, stats>>

Login ==
    \E email \in Emails, password \in Passwords :
        LET res == login(users, sm, email, password, now) IN
        /\ SessionsCount(issued \cup {res.access_token}) <= MaxSessions
        /\ issued' = IF res.status = 200
                     THEN issued \cup {res.access_token, res.refresh_token}
                     ELSE issued
        /\ UNCHANGED <<now, users, nextId, sm, rotated, reqRevoked, reg, ref, tasks, stats>>

RefreshTokens ==
    \E token \in Presentable :
        LET out == refresh_tokens(users, sm, token, now) IN
        /\ RevokedCount(out.sm) <= MaxRevoked
        /\ SessionsCount(issued \cup {out.res.access_token}) <= MaxSessions
        /\ sm' = out.sm
        /\ issued' = IF out.res.status = 200
                     THEN issued \cup {out.res.access_token, out.res.refresh_token}
                     ELSE issued
        /\ rotated' = IF out.res.status = 200 THEN rotated \cup {token} ELSE rotated
        /\ UNCHANGED <<now, users, nextId, reqRevoked, reg, ref, tasks, stats>>

LogoutUser ==
    \E access_token \in Presentable, token \in Presentable :
        LET out == logout_user(sm, access_token, token, now) IN
        /\ RevokedCount(out.sm) <= MaxRevoked
        /\ sm' = out.sm
        /\ UNCHANGED <<now, users, nextId, issued, rotated, reqRevoked, reg, ref, tasks, stats>>

GetCurrentUserId ==
    \E token \in Presentable :
        /\ get_current_user_id(sm, token, now).status \in {200, 401}
        /\ UNCHANGED vars

\* UserService.get_user_profile for the id taken from a token.
GetUserProfile ==
    \E user_id \in 1..nextId :
        /\ get_user_profile(users, user_id).status \in {200, 404}
        /\ UNCHANGED vars

Next ==
    \/ Tick
    \/ StoreDeleteUser
    \/ Register
    \/ Login
    \/ RefreshTokens
    \/ LogoutUser
    \/ GetCurrentUserId
    \/ GetUserProfile

Spec == Init /\ [][Next]_vars

\* The life of tokens on the kept SecurityManager while no row is deleted:
\* issuing, decoding, rotating and revoking, with the rows as register left
\* them.
NextTokens ==
    \/ Tick
    \/ Register
    \/ Login
    \/ RefreshTokens
    \/ LogoutUser
    \/ GetCurrentUserId

SpecTokens == Init /\ [][NextTokens]_vars

(* ------------------ HTTP requests, one manager each ------------------- *)
\* What the request's manager blacklisted, added to the record of past requests.
Recorded(m) ==
    [blacklist_access |-> reqRevoked.blacklist_access \cup m.blacklist_access,
     blacklist_refresh |-> reqRevoked.blacklist_refresh \cup m.blacklist_refresh]

HttpRegister ==
    \E email \in Emails, password \in RegisterPasswords, full_name \in FullNames,
       salt \in Salts, db_up \in BOOLEAN :
        LET out == http_register_user_db(db_up, users, email, password, full_name,
                                         nextId, salt) IN
        /\ out.res.status = 200 => nextId <= MaxUsers
        /\ users' = out.users
        /\ nextId' = IF out.res.status = 200 THEN nextId + 1 ELSE nextId
        /\ UNCHANGED <<now, sm, issued, rotated, reqRevoked, reg, ref, tasks, stats>>

HttpLogin ==
    \E email \in Emails, password \in Passwords, db_up \in BOOLEAN :
        LET res == http_login_user_db(db_up, users, email, password, now) IN
        /\ SessionsCount(issued \cup {res.access_token}) <= MaxSessions
        /\ issued' = IF res.status = 200
                     THEN issued \cup {res.access_token, res.refresh_token}
                     ELSE issued
        /\ UNCHANGED <<now, users, nextId, sm, rotated, reqRevoked, reg, ref, tasks, stats>>

HttpRefresh ==
    \E token \in Presentable, db_up \in BOOLEAN :
        LET out == http_refresh_token_db(db_up, users, token, now) IN
        /\ RevokedCount(Recorded(out.sm)) <= MaxRevoked
        /\ SessionsCount(issued \cup {out.res.access_token}) <= MaxSessions
        /\ reqRevoked' = Recorded(out.sm)
        /\ issued' = IF out.res.status = 200
                     THEN issued \cup {out.res.access_token, out.res.refresh_token}
                     ELSE issued
        /\ rotated' = IF out.res.status = 200 THEN rotated \cup {token} ELSE rotated
        /\ UNCHANGED <<now, users, nextId, sm, reg, ref, tasks, stats>>

HttpLogout ==
    \E access_token \in Presentable, token \in Presentable :
        LET out == http_logout(access_token, token, now) IN
        /\ RevokedCount(Recorded(out.sm)) <= MaxRevoked
        /\ reqRevoked' = Recorded(out.sm)
        /\ UNCHANGED <<now, users, nextId, sm, issued, rotated, reg, ref, tasks, stats>>

HttpGetCurrentUserId ==
    \E token \in Presentable :
        /\ http_get_current_user_id(token, now).status \in {200, 401}
        /\ UNCHANGED vars

NextHttp ==
    \/ Tick
    \/ StoreDeleteUser
    \/ HttpRegister
    \/ HttpLogin
    \/ HttpRefresh
    \/ HttpLogout
    \/ HttpGetCurrentUserId

SpecHttp == Init /\ [][NextHttp]_vars

(* ------- register calls of several workers, statement by statement ---- *)
\* register, first statement: the SELECT that looks for the email.
RegQuery(p) ==
    \E email \in Emails :
        /\ reg[p].pc = "idle"
        /\ reg' = [reg EXCEPT ![p] =
               IF UsersByEmail(users, email) # {}
               THEN [pc |-> "done", email |-> email, status |-> 400]
               ELSE [pc |-> "checked", email |-> email, status |-> 0]]
        /\ UNCHANGED <<now, users, nextId, sm, issued, rotated, reqRevoked, ref, tasks, stats>>

\* register, after the check: hash, db.add and db.commit.  An IntegrityError
\* is no HTTPException, so the request ends with 500.
RegCommit(p) ==
    \E password \in RegisterPasswords, full_name \in FullNames, salt \in Salts :
        LET new_user == User(nextId, reg[p].email,
                             hash_password(password, salt), full_name)
            out == db_insert_user(users, new_user)
        IN
        /\ reg[p].pc = "checked"
        /\ nextId <= MaxRegistrations
        /\ users' = out.users
        /\ nextId' = IF out.ok THEN nextId + 1 ELSE nextId
        /\ reg' = [reg EXCEPT ![p] =
               [pc |-> "done", email |-> reg[p].email,
                status |-> IF out.ok THEN 200 ELSE 500]]
        /\ UNCHANGED <<now, sm, issued, rotated, reqRevoked, ref, tasks, stats>>

\* The response is sent and the worker is free for the next request.
RegReturn(p) ==
    /\ reg[p].pc = "done"
    /\ reg' = [reg EXCEPT ![p] = Idle]
    /\ UNCHANGED <<now, users, nextId, sm, issued, rotated, reqRevoked, ref, tasks, stats>>

NextConc ==
    \/ StoreDeleteUser
    \/ \E p \in Procs : RegQuery(p)
    \/ \E p \in Procs : RegCommit(p)
    \/ \E p \in Procs : RegReturn(p)

SpecConc == Init /\ [][NextConc]_vars

(* ------ refresh_tokens calls of several coroutines on one manager ----- *)
\* The caller is outside the call, or suspended at one of its awaits.
Parked(c) ==
    \/ ref[c].pc \in {"idle", "done"}
    \/ ref[c].pc = "await_is_revoked" /\ Suspends("is_refresh_token_revoked")
    \/ ref[c].pc = "await_revoke" /\ Suspends("revoke_refresh_token")

\* The event loop runs one coroutine at a time, switching only at a suspension.
MayRun(c) == \A d \in Callers \ {c} : Parked(d)

\* refresh_tokens up to the first await: decode, type, subject, user lookup.
RefBegin(c) ==
    \E token \in Presentable :
        LET d == decode_token(sm, token, now)
            failed == \/ ~d.ok
                      \/ d.payload.type # "refresh"
                      \/ d.payload.sub = NoneSub
                      \/ UsersBySub(users, d.payload.sub) = {}
        IN
        /\ ref[c].pc = "idle"
        /\ MayRun(c)
        /\ ref' = [ref EXCEPT ![c] =
               IF failed
               THEN [NoCall EXCEPT !.pc = "done", !.token = token, !.status = 401]
               ELSE [NoCall EXCEPT !.pc = "await_is_revoked", !.token = token]]
        /\ UNCHANGED <<now, users, nextId, sm, issued, rotated, reqRevoked, reg, tasks, stats>>

\* await is_refresh_token_revoked, then the creation of both new tokens.
RefIsRevoked(c) ==
    LET token == ref[c].token
        user_id == UUIDParse(token.payload.sub).value
        out == refresh_issue(sm, token, user_id, now)
    IN
    /\ ref[c].pc = "await_is_revoked"
    /\ MayRun(c)
    /\ IF is_refresh_token_revoked(sm, token)
       THEN /\ ref' = [ref EXCEPT ![c].pc = "done", ![c].status = 401]
            /\ sm' = sm
       ELSE /\ ref' = [ref EXCEPT ![c].pc = "await_revoke",
                                  ![c].access_token = out.access_token,
                                  ![c].refresh_token = out.refresh_token]
            /\ sm' = out.sm
    /\ UNCHANGED <<now, users, nextId, issued, rotated, reqRevoked, reg, tasks, stats>>

\* await revoke_refresh_token, then return TokenResponse.
RefRevoke(c) ==
    LET out == revoke_refresh_token(sm, ref[c].token) IN
    /\ ref[c].pc = "await_revoke"
    /\ MayRun(c)
    /\ RevokedCount(out) <= MaxRevoked
    /\ SessionsCount(issued \cup {ref[c].access_token}) <= MaxSessions
    /\ sm' = out
    /\ ref' = [ref EXCEPT ![c].pc = "done", ![c].status = 200]
    /\ issued' = issued \cup {ref[c].access_token, ref[c].refresh_token}
    /\ rotated' = rotated \cup {ref[c].token}
    /\ UNCHANGED <<now, users, nextId, reqRevoked, reg, tasks, stats>>

\* The outcome has been handed to the client.
RefReturn(c) ==
    /\ ref[c].pc = "done"
    /\ ref' = [ref EXCEPT ![c] = NoCall]
    /\ UNCHANGED <<now, users, nextId, sm, issued, rotated, reqRevoked, reg, tasks, stats>>

\* A call takes less than a second: the clock advances between calls.
TickBetweenCalls ==
    /\ \A c \in Callers : ref[c].pc \in {"idle", "done"}
    /\ Tick

NextRefresh ==
    \/ TickBetweenCalls
    \/ Register
    \/ Login
    \/ \E c \in Callers : RefBegin(c)
    \/ \E c \in Callers : RefIsRevoked(c)
    \/ \E c \in Callers : RefRevoke(c)
    \/ \E c \in Callers : RefReturn(c)

SpecRefresh == Init /\ [][NextRefresh]_vars

(* ------------------- TaskService calls of the owners ------------------ *)
\* Ids that uuid4 has handed out or hands out next.
Ids == 1..nextId

\* The owner_id of a request: the id of an authenticated user.
OwnerIds == {u.id : u \in users}

\* The task_id of a request: the id of a task of some owner, or of none.
TaskIds == {t.id : t \in tasks} \cup {nextId}

\* AuthService.register of the users that own tasks.
RegisterOwner ==
    \E email \in Emails, password \in RegisterPasswords, full_name \in FullNames,
       salt \in Salts :
        LET out == register(users, email, password, full_name, nextId, salt) IN
        /\ Cardinality(users) < MaxOwners
        /\ nextId <= MaxOwners + MaxTasks
        /\ out.res.status = 200
        /\ users' = out.users
        /\ nextId' = nextId + 1
        /\ UNCHANGED <<now, sm, issued, rotated, reqRevoked, reg, ref, tasks, stats>>

\* owner_id is the id of an authenticated, existing user (tasks.owner_id
\* references users.id).
CreateTask ==
    \E task_data \in TaskCreates, owner \in users :
        LET out == create_task(tasks, task_data, owner.id, nextId, now) IN
        /\ Cardinality(tasks) < MaxTasks
        /\ nextId <= MaxOwners + MaxTasks
        /\ tasks' = out.tasks
        /\ nextId' = nextId + 1
        /\ UNCHANGED <<now, users, sm, issued, rotated, reqRevoked, reg, ref, stats>>

GetTaskById ==
    \E task_id \in TaskIds, owner_id \in OwnerIds :
        /\ get_task_by_id(tasks, task_id, owner_id).status \in {200, 404}
        /\ UNCHANGED vars

GetTasks ==
    \E owner_id \in OwnerIds, filters \in TaskFilters :
        /\ get_tasks(tasks, owner_id, filters) # {}
        /\ UNCHANGED vars

UpdateTask ==
    \E task_id \in TaskIds, owner_id \in OwnerIds, task_update \in TaskUpdates :
        /\ tasks' = update_task(tasks, task_id, task_update, owner_id, now).tasks
        /\ UNCHANGED <<now, users, nextId, sm, issued, rotated, reqRevoked, reg, ref, stats>>

DeleteTask ==
    \E task_id \in TaskIds, owner_id \in OwnerIds :
        /\ tasks' = delete_task(tasks, task_id, owner_id).tasks
        /\ UNCHANGED <<now, users, nextId, sm, issued, rotated, reqRevoked, reg, ref, stats>>

MarkTaskAsDone ==
    \E task_id \in TaskIds, owner_id \in OwnerIds :
        /\ tasks' = mark_task_as_done(tasks, task_id, owner_id, now).tasks
        /\ UNCHANGED <<now, users, nextId, sm, issued, rotated, reqRevoked, reg, ref, stats>>

MarkTaskAsUndone ==
    \E task_id \in TaskIds, owner_id \in OwnerIds :
        /\ tasks' = mark_task_as_undone(tasks, task_id, owner_id, now).tasks
        /\ UNCHANGED <<now, users, nextId, sm, issued, rotated, reqRevoked, reg, ref, stats>>

GetTaskStats ==
    \E owner_id \in OwnerIds :
        /\ get_task_stats(tasks, owner_id).total >= 0
        /\ UNCHANGED vars

NextTasks ==
    \/ Tick
    \/ RegisterOwner
    \/ CreateTask
    \/ GetTaskById
    \/ GetTasks
    \/ UpdateTask
    \/ DeleteTask
    \/ MarkTaskAsDone
    \/ MarkTaskAsUndone
    \/ GetTaskStats

SpecTasks == Init /\ [][NextTasks]_vars

(* ---- get_task_stats, query by query, beside another server process ---- *)
\* The counts of owner_id's rows in one state of the table.
Counts(rows, owner_id) ==
    [total |-> count_total(rows, owner_id),
     completed |-> count_completed(rows, owner_id)]

\* The table after a commit of the other process, noted while the call runs.
Observe(rows) ==
    IF stats.pc = "total"
    THEN [stats EXCEPT !.seen = @ \cup {Counts(rows, stats.owner_id)}]
    ELSE stats

\* total_tasks = ...scalar(): the first SELECT, on the rows committed now.
StatsTotal ==
    \E owner_id \in OwnerIds :
        /\ stats.pc = "idle"
        /\ stats' = [pc |-> "total", owner_id |-> owner_id,
                     total |-> count_total(tasks, owner_id), completed |-> 0,
                     pending |-> 0, seen |-> {Counts(tasks, owner_id)}]
        /\ UNCHANGED <<now, users, nextId, sm, issued, rotated, reqRevoked, reg, ref,
                       tasks>>

\* completed_tasks = ...scalar() and pending_tasks = total - completed: the
\* second SELECT, on the rows committed by then.
StatsCompleted ==
    /\ stats.pc = "total"
    /\ LET completed_tasks == count_completed(tasks, stats.owner_id) IN
       stats' = [stats EXCEPT !.pc = "done", !.completed = completed_tasks,
                              !.pending = stats.total - completed_tasks]
    /\ UNCHANGED <<now, users, nextId, sm, issued, rotated, reqRevoked, reg, ref,
                   tasks>>

\* return {"total": ..., "completed": ..., "pending": ...}
StatsReturn ==
    /\ stats.pc = "done"
    /\ stats' = NoStats
    /\ UNCHANGED <<now, users, nextId, sm, issued, rotated, reqRevoked, reg, ref,
                   tasks>>

\* create_task, delete_task and mark_task_as_done committed by another
\* process of the service on the same database.
ConcCreateTask ==
    \E task_data \in TaskCreates, owner \in users :
        LET out == create_task(tasks, task_data, owner.id, nextId, now) IN
        /\ Cardinality(tasks) < MaxTasks
        /\ nextId <= MaxOwners + MaxTasks
        /\ tasks' = out.tasks
        /\ nextId' = nextId + 1
        /\ stats' = Observe(out.tasks)
        /\ UNCHANGED <<now, users, sm, issued, rotated, reqRevoked, reg, ref>>

ConcDeleteTask ==
    \E t \in tasks :
        LET out == delete_task(tasks, t.id, t.owner_id) IN
        /\ tasks' = out.tasks
        /\ stats' = Observe(out.tasks)
        /\ UNCHANGED <<now, users, nextId, sm, issued, rotated, reqRevoked, reg, ref>>

ConcMarkTaskAsDone ==
    \E t \in tasks :
        LET out == mark_task_as_done(tasks, t.id, t.owner_id, now) IN
        /\ tasks' = out.tasks
        /\ stats' = Observe(out.tasks)
        /\ UNCHANGED <<now, users, nextId, sm, issued, rotated, reqRevoked, reg, ref>>

NextStats ==
    \/ RegisterOwner
    \/ ConcCreateTask
    \/ ConcDeleteTask
    \/ ConcMarkTaskAsDone
    \/ StatsTotal
    \/ StatsCompleted
    \/ StatsReturn

SpecStats == Init /\ [][NextStats]_vars

(* ============================== claims ================================ *)
\* Signature and validity window of a token are good at the current time.
ValidNow(t) == jwt_decode(t, JWT_SECRET_KEY, JWT_ALGORITHM, now).ok

SubjectExists(t) == \E u \in users : UUIDStr(u.id) = t.payload.sub

\* C1: on one SecurityManager a refresh token is single-use.  Every valid,
\* unrevoked refresh token whose subject exists is accepted by refresh_tokens,
\* which returns an access + refresh pair for that subject; and a refresh
\* token that a successful refresh_tokens call has consumed is refused with
\* 401 by refresh_tokens in every later state.
C1_RefreshSingleUse ==
    /\ \A rt \in Presentable :
        (/\ ValidNow(rt)
         /\ rt.payload.type = "refresh"
         /\ rt \notin sm.blacklist_refresh
         /\ SubjectExists(rt))
        => LET out == refresh_tokens(users, sm, rt, now) IN
           /\ out.res.status = 200
           /\ out.res.access_token.payload.type = "access"
           /\ out.res.refresh_token.payload.type = "refresh"
           /\ out.res.access_token.payload.sub = rt.payload.sub
           /\ out.res.refresh_token.payload.sub = rt.payload.sub
    /\ \A rt \in rotated :
        LET out == refresh_tokens(users, sm, rt, now) IN
        /\ out.res.status = 401
        /\ out.res.refresh_token = EmptyToken

\* A consumed refresh token is presented again while its signature and
\* window are still good and its user still exists.
C1_Witness ==
    \E rt \in rotated : ValidNow(rt) /\ SubjectExists(rt)

\* C2: a token revoked while serving one HTTP request is reported as revoked
\* by the Security Manager that serves every later request.
C2_RegistrySharedByRequests ==
    /\ \A t \in reqRevoked.blacklist_access :
        /\ is_access_token_revoked(get_security_manager, t)
        /\ t.payload.type = "access" => ~decode_token(get_security_manager, t, now).ok
    /\ \A t \in reqRevoked.blacklist_refresh :
        /\ is_refresh_token_revoked(get_security_manager, t)
        /\ t.payload.type = "refresh" => ~decode_token(get_security_manager, t, now).ok

\* C3: a token held in the revocation set of its own type is refused by
\* decode_token, and so by refresh_tokens and get_current_user_id, even while
\* its signature and validity window are good.
C3_RevokedNeverValid ==
    \A t \in Presentable :
        (\/ t.payload.type = "access" /\ t \in sm.blacklist_access
         \/ t.payload.type = "refresh" /\ t \in sm.blacklist_refresh)
        => /\ ~decode_token(sm, t, now).ok
           /\ refresh_tokens(users, sm, t, now).res.status = 401
           /\ get_current_user_id(sm, t, now).status = 401

\* A revoked token of either type whose signature and window are still good.
C3_Witness ==
    \E t \in Presentable :
        /\ ValidNow(t)
        /\ \/ t.payload.type = "access" /\ t \in sm.blacklist_access
           \/ t.payload.type = "refresh" /\ t \in sm.blacklist_refresh

\* C4: get_current_user_id fails with 401 and yields no user id for every
\* token whose type claim is "refresh".
C4_RefreshNeverAuthenticates ==
    \A t \in Presentable :
        t.payload.type = "refresh"
        => LET res == get_current_user_id(sm, t, now) IN
           res.status = 401 /\ res.user_id = NoUser

\* A well-formed, unexpired, unrevoked refresh token of an existing user is
\* refused because of its type.
C4_Witness ==
    \E t \in issued :
        /\ t.payload.type = "refresh"
        /\ decode_token(sm, t, now).ok
        /\ SubjectExists(t)
        /\ get_current_user_id(sm, t, now).detail =
               "Invalid token type. Only access tokens are allowed for this endpoint."

C6_NoReplayAfterLogout ==
    /\ \A a \in reqRevoked.blacklist_access :
        http_get_current_user_id(a, now).status = 401
    /\ \A r \in reqRevoked.blacklist_refresh \ rotated :
        http_refresh_token(users, r, now).res.status = 401

\* C7: refresh_tokens fails with 401, returns no token and revokes nothing
\* when given an access token, and when given a valid refresh token whose
\* subject is not an existing user.
C7_RefreshRejectsUnusable ==
    \A t \in Presentable :
        (/\ ValidNow(t)
         /\ \/ t.payload.type = "access"
            \/ t.payload.type = "refresh" /\ ~SubjectExists(t))
        => LET out == refresh_tokens(users, sm, t, now) IN
           /\ out.res.status = 401
           /\ out.res.access_token = EmptyToken
           /\ out.res.refresh_token = EmptyToken

\* Both cases at once: a valid access token, and a valid unrevoked refresh
\* token whose user has been removed.
C7_Witness ==
    /\ \E t \in issued : ValidNow(t) /\ t.payload.type = "access"
    /\ \E t \in issued :
        /\ ValidNow(t)
        /\ t.payload.type = "refresh"
        /\ t \notin sm.blacklist_refresh
        /\ ~SubjectExists(t)

\* C8: a successful refresh_tokens(rt) returns a refresh token that differs
\* from rt, is not revoked when the call returns, and is accepted by a
\* following refresh_tokens.
C8_RefreshReturnsNewPair ==
    \A rt \in Presentable :
        LET out == refresh_tokens(users, sm, rt, now) IN
        out.res.status = 200
        => /\ out.res.refresh_token # rt
           /\ out.res.refresh_token \notin out.sm.blacklist_refresh
           /\ refresh_tokens(users, out.sm, out.res.refresh_token, now).res.status = 200

\* C9: register fails with "Email already exists" and leaves the user store
\* unchanged exactly when a user with that exact email exists; otherwise it
\* adds exactly one user, with that email and a hash of the password.
C9_RegisterDuplicateEmail ==
    \A email \in Emails, password \in RegisterPasswords, full_name \in FullNames,
       salt \in Salts :
        LET out == register(users, email, password, full_name, nextId, salt) IN
        IF \E u \in users : u.email = email
        THEN /\ out.res.status = 400
             /\ out.res.detail = "Email already exists"
             /\ out.users = users
        ELSE /\ out.res.status = 200
             /\ users \subseteq out.users
             /\ Cardinality(out.users \ users) = 1
             /\ \A u \in out.users \ users :
                 /\ u.email = email
                 /\ verify_password(password, u.password_hash)
                 /\ \A q \in Passwords \ {password} :
                     ~verify_password(q, u.password_hash)

\* A user is registered, so a second register with the same email meets the
\* duplicate, while the other email is still free.
C9_Witness ==
    /\ \E u \in users : u.email \in Emails
    /\ \E email \in Emails : \A u \in users : u.email # email

\* C10: a successful login returns two distinct non-empty tokens bound to
\* the user with that email: get_current_user_id on the access token yields
\* that user's id and refresh_tokens accepts the refresh token.
C10_LoginTokensUsable ==
    \A email \in Emails, password \in Passwords :
        LET res == login(users, sm, email, password, now) IN
        res.status = 200
        => /\ res.access_token # res.refresh_token
           /\ res.access_token # EmptyToken
           /\ res.refresh_token # EmptyToken
           /\ \E u \in users :
               /\ u.email = email
               /\ get_current_user_id(sm, res.access_token, now) = Returned(u.id)
           /\ refresh_tokens(users, sm, res.refresh_token, now).res.status = 200

\* The email belongs to a user and the password does not match its hash.
C11_WrongPassword(email, password) ==
    /\ UsersByEmail(users, email) # {}
    /\ \A u \in UsersByEmail(users, email) :
        ~verify_password(password, u.password_hash)

\* C11: a login with an email that has no user and a login with an existing
\* email and a non-matching password give the caller the same outcome: the
\* same 401 with the same detail and no token, from the service and from the
\* POST /auth/login handler.
C11_LoginSameErrorForBoth ==
    \A e1 \in Emails, e2 \in Emails, p1 \in Passwords, p2 \in Passwords :
        (UsersByEmail(users, e1) = {} /\ C11_WrongPassword(e2, p2))
        => /\ login(users, sm, e1, p1, now) = login(users, sm, e2, p2, now)
           /\ login(users, sm, e1, p1, now) = HTTPException(401, "Invalid credentials")
           /\ http_login_user(users, e1, p1, now) = http_login_user(users, e2, p2, now)

\* One email is unknown while another is registered with a password that one
\* of the candidate passwords does not match.
C11_Witness ==
    \E e1 \in Emails, e2 \in Emails, p2 \in Passwords :
        UsersByEmail(users, e1) = {} /\ C11_WrongPassword(e2, p2)

\* The token is in neither revocation set of the kept manager.
Unrevoked(t) == t \notin sm.blacklist_access /\ t \notin sm.blacklist_refresh

\* C12 as stated: an issued, unrevoked token is accepted at the current time
\* exactly when not_before <= now <= expires_at.
C12_AcceptedThroughExpiry ==
    \A t \in issued :
        Unrevoked(t)
        => (decode_token(sm, t, now).ok
            <=> (t.payload.nbf <= now /\ now <= t.payload.exp))

\* C12: an issued, unrevoked token is accepted by decode_token at a time
\* exactly when not_before <= time < expires_at; at expires_at and at every
\* later time decode_token fails with ExpiredSignatureError.
C12_AcceptedBeforeExpiry ==
    \A t \in issued :
        Unrevoked(t)
        => \A time \in 0..(MaxTime + JWT_REFRESH_TOKEN_EXPIRE_DAYS + 1) :
            LET d == decode_token(sm, t, time) IN
            /\ d.ok <=> (t.payload.nbf <= time /\ time < t.payload.exp)
            /\ time >= t.payload.exp => d = JwtError("ExpiredSignatureError")

\* The clock stands exactly at the expiry of an issued, unrevoked token.
C12_Witness ==
    \E t \in issued :
        /\ Unrevoked(t)
        /\ now = t.payload.exp
        /\ ~decode_token(sm, t, now).ok

\* C13: for every user id and creation time, a token that is not revoked
\* decodes, at every time of its validity window, to the claims it was built
\* from: sub = str(id), iat = nbf = creation time, and type "access" with
\* exp = creation time + access lifetime for create_access_token, type
\* "refresh" with exp = creation time + refresh lifetime for
\* create_refresh_token.
C13_CreateDecodeRoundTrip ==
    \A u \in 1..MaxUsers, t \in 0..MaxTime :
        LET at == create_access_token(u, t)
            rt == create_refresh_token(u, t)
        IN
        /\ \A time \in t..(t + JWT_ACCESS_TOKEN_EXPIRE_MINUTES - 1) :
            Unrevoked(at)
            => decode_token(sm, at, time) =
                   [ok |-> TRUE, err |-> "",
                    payload |-> [exp |-> t + JWT_ACCESS_TOKEN_EXPIRE_MINUTES,
                                 iat |-> t, nbf |-> t, sub |-> UUIDStr(u),
                                 type |-> "access"]]
        /\ \A time \in t..(t + JWT_REFRESH_TOKEN_EXPIRE_DAYS - 1) :
            Unrevoked(rt)
            => decode_token(sm, rt, time) =
                   [ok |-> TRUE, err |-> "",
                    payload |-> [exp |-> t + JWT_REFRESH_TOKEN_EXPIRE_DAYS,
                                 iat |-> t, nbf |-> t, sub |-> UUIDStr(u),
                                 type |-> "refresh"]]

\* An access and a refresh token built by the service are both decoded by a
\* manager that holds revoked tokens, the refresh token after time has passed.
C13_Witness ==
    /\ sm # SecurityManager
    /\ \E at \in issued, rt \in issued :
        /\ at.payload.type = "access" /\ decode_token(sm, at, now).ok
        /\ rt.payload.type = "refresh" /\ decode_token(sm, rt, now).ok
        /\ rt.payload.iat < now

\* C14: for a token whose structure, signature or validity window is bad,
\* decode_token gives the same outcome on a manager that holds the token in
\* both revocation sets and on one that holds it in neither: the decoding
\* error, never a revocation error.
C14_InvalidTokenHidesRevocation ==
    \A t \in Presentable :
        ~ValidNow(t)
        => LET with == revoke_refresh_token(revoke_access_token(sm, t), t)
               without == [blacklist_access |-> sm.blacklist_access \ {t},
                           blacklist_refresh |-> sm.blacklist_refresh \ {t}]
           IN /\ decode_token(with, t, now) = decode_token(without, t, now)
              /\ decode_token(with, t, now) =
                     jwt_decode(t, JWT_SECRET_KEY, JWT_ALGORITHM, now)

\* An expired token of the service and a token that never was good are both
\* held in a revocation set.
C14_Witness ==
    /\ \E t \in issued :
        ~ValidNow(t) /\ (t \in sm.blacklist_access \/ t \in sm.blacklist_refresh)
    /\ \E t \in BadTokens :
        t \in sm.blacklist_access \/ t \in sm.blacklist_refresh

\* C15: get_current_user_id returns the subject of every valid, unrevoked
\* access token, whether or not a user with that id is in the store.
C15_NoUserLookup ==
    \A t \in Presentable :
        (ValidNow(t) /\ t.payload.type = "access" /\ t \notin sm.blacklist_access)
        => get_current_user_id(sm, t, now) = Returned(UUIDParse(t.payload.sub).value)

\* A valid, unrevoked access token whose user has been removed from the store.
C15_Witness ==
    \E t \in issued :
        /\ ValidNow(t)
        /\ t.payload.type = "access"
        /\ t \notin sm.blacklist_access
        /\ ~SubjectExists(t)

\* C16: a successful refresh_tokens leaves the access revocation set as it
\* was, and every access token is answered by get_current_user_id after the
\* call exactly as before it; the one issued together with the refresh token
\* still authenticates while it is unexpired and unrevoked.
C16_RefreshKeepsAccessTokens ==
    \A rt \in Presentable :
        LET out == refresh_tokens(users, sm, rt, now) IN
        out.res.status = 200
        => /\ out.sm.blacklist_access = sm.blacklist_access
           /\ \A a \in issued :
               a.payload.type = "access"
               => get_current_user_id(out.sm, a, now) = get_current_user_id(sm, a, now)
           /\ \A a \in issued :
               (/\ a.payload.type = "access"
                /\ a.payload.sub = rt.payload.sub
                /\ a.payload.iat = rt.payload.iat
                /\ ValidNow(a)
                /\ a \notin sm.blacklist_access)
               => get_current_user_id(out.sm, a, now).status = 200

\* A refresh token has been consumed and the access token issued together
\* with it still authenticates.
C16_Witness ==
    \E rt \in rotated, a \in issued :
        /\ a.payload.type = "access"
        /\ a.payload.sub = rt.payload.sub
        /\ a.payload.iat = rt.payload.iat
        /\ get_current_user_id(sm, a, now).status = 200

\* C17: every token of the service held in the access revocation set has
\* type "access" and every one held in the refresh revocation set has type
\* "refresh".
C17_PartitionsMatchTypes ==
    /\ \A t \in sm.blacklist_access \cap issued : t.payload.type = "access"
    /\ \A t \in sm.blacklist_refresh \cap issued : t.payload.type = "refresh"

\* C18: no step removes an entry from either revocation set.
C18_RevocationAppendOnly ==
    [][/\ sm.blacklist_access \subseteq sm'.blacklist_access
       /\ sm.blacklist_refresh \subseteq sm'.blacklist_refresh]_vars

\* A refresh token revoked by rotation is still held after a later logout
\* has added to the access revocation set.
C18_Witness ==
    /\ rotated # {}
    /\ rotated \subseteq sm.blacklist_refresh
    /\ sm.blacklist_access # {}

\* C19: revoking a token that its set already holds leaves both sets as they
\* were, and logout_user called a second time with the same pair leaves the
\* registry as the first call left it.
C19_RevocationIdempotent ==
    /\ \A t \in sm.blacklist_access : revoke_access_token(sm, t) = sm
    /\ \A t \in sm.blacklist_refresh : revoke_refresh_token(sm, t) = sm
    /\ \A a \in Presentable, r \in Presentable :
        LET once == logout_user(sm, a, r, now)
            twice == logout_user(once.sm, a, r, now)
        IN twice.sm = once.sm /\ twice.res = once.res

\* Both revocation sets hold a token, so that a repeated logout_user meets
\* entries that are already there.
C19_Witness ==
    \E a \in sm.blacklist_access, r \in sm.blacklist_refresh :
        logout_user(sm, a, r, now).sm = sm

\* C20: under every interleaving of the statements of concurrent register
\* calls, no two rows of the users table hold the same email.
C20_EmailsStayUnique ==
    \A u1 \in users, u2 \in users : u1.email = u2.email => u1 = u2

\* Two register calls with the same email both passed the existence check;
\* one commit succeeded and the other was refused by the database.
C20_Witness ==
    \E p \in Procs, q \in Procs :
        /\ reg[p].email = reg[q].email
        /\ reg[p].pc = "done" /\ reg[p].status = 200
        /\ reg[q].pc = "done" /\ reg[q].status = 500

\* C21: a refresh_tokens call that returns a new pair never does so for a
\* refresh token that another successful call has already consumed, however
\* the calls of several coroutines on one manager are scheduled.
C21_SingleUseUnderConcurrency ==
    [][\A c \in Callers :
        (ref[c].pc = "await_revoke" /\ ref'[c].pc = "done" /\ ref'[c].status = 200)
        => ref[c].token \notin rotated]_vars

\* Two calls presenting the same refresh token are both in progress; one has
\* returned a new pair and the other has been refused.
C21_Witness ==
    \E c \in Callers, d \in Callers :
        /\ ref[c].token = ref[d].token
        /\ ref[c].pc = "done" /\ ref[c].status = 200
        /\ ref[d].pc = "done" /\ ref[d].status = 401

\* C29: inside a refresh_tokens call the manager changes only in the step
\* that follows the creation of both new tokens, and by nothing but the
\* presented token entering the refresh revocation set; while the call stands
\* between creation and revocation the presented token is unrevoked and still
\* decodes, and both new tokens are valid.
C29_RotationSequential ==
    [][/\ sm' # sm
          => \E c \in Callers :
              /\ ref[c].pc = "await_revoke" /\ ref'[c].pc = "done"
              /\ ref[c].access_token # EmptyToken
              /\ ref[c].refresh_token # EmptyToken
              /\ sm' = revoke_refresh_token(sm, ref[c].token)
       /\ \A c \in Callers :
           ref[c].pc = "await_revoke"
           => /\ ref[c].token \notin sm.blacklist_refresh
              /\ decode_token(sm, ref[c].token, now).ok
              /\ get_current_user_id(sm, ref[c].access_token, now).status = 200
              /\ decode_token(sm, ref[c].refresh_token, now).ok]_vars

\* A refresh token of the service, inside its window, whose user is gone.
C22_OrphanRefreshToken(t) ==
    ValidNow(t) /\ t.payload.type = "refresh" /\ ~SubjectExists(t)

\* C22: POST /auth/refresh answers a valid refresh token whose user no longer
\* exists exactly as it answers an invalid token: the same 401 with the same
\* detail.
C22_DeletedUserLooksInvalid ==
    \A t1 \in Presentable, t2 \in Presentable :
        (C22_OrphanRefreshToken(t1) /\ ~ValidNow(t2))
        => /\ http_refresh_token_db(TRUE, users, t1, now).res =
                  http_refresh_token_db(TRUE, users, t2, now).res
           /\ http_refresh_token_db(TRUE, users, t1, now).res =
                  HTTPException(401, "Invalid or expired refresh token")

\* A client holds a valid refresh token of a removed user, for which the
\* service itself answers "User not found".
C22_Witness ==
    \E t \in issued :
        /\ C22_OrphanRefreshToken(t)
        /\ refresh_tokens(users, get_security_manager, t, now).res.detail = "User not found"

\* The refresh token passes every check that precedes the user query.
C23_ReachesUserQuery(m, t) ==
    LET d == decode_token(m, t, now) IN
    d.ok /\ d.payload.type = "refresh" /\ d.payload.sub # NoneSub

\* C23: with the user store unavailable, register, login and refresh_tokens
\* end in the database error, and the handlers of POST /auth/register,
\* /auth/login and /auth/refresh answer with a server failure, never with 401.
C23_StoreFailureNotUnauthorized ==
    /\ \A email \in Emails, password \in RegisterPasswords, full_name \in FullNames,
          salt \in Salts :
        /\ register_db(FALSE, users, email, password, full_name, nextId, salt).res
               = OperationalError
        /\ http_register_user_db(FALSE, users, email, password, full_name,
                                 nextId, salt).res.status = 500
    /\ \A email \in Emails, password \in Passwords :
        /\ login_db(FALSE, users, sm, email, password, now) = OperationalError
        /\ http_login_user_db(FALSE, users, email, password, now).status = 500
    /\ \A t \in Presentable :
        /\ C23_ReachesUserQuery(sm, t)
           => refresh_tokens_db(FALSE, users, sm, t, now).res = OperationalError
        /\ C23_ReachesUserQuery(get_security_manager, t)
           => http_refresh_token_db(FALSE, users, t, now).res.status # 401

\* C24: login, refresh_tokens, logout_user and get_current_user_id leave the
\* users table as it is, and register keeps every existing row and adds at
\* most one.
C24_AuthCoreNeverMutatesUser ==
    [][/\ (Login \/ RefreshTokens \/ LogoutUser \/ GetCurrentUserId)
          => users' = users
       /\ Register
          => /\ users \subseteq users'
             /\ Cardinality(users' \ users) <= 1]_vars

\* Login, refresh_tokens and logout_user have all acted and the user they
\* acted for is still in the table.
C24_Witness ==
    /\ rotated # {}
    /\ sm.blacklist_access # {}
    /\ \E t \in rotated : SubjectExists(t)

\* C25: once register(e, p, n) has succeeded, login(e, p) returns tokens and
\* login(e, q) fails with "Invalid credentials" for every other password q;
\* the same holds for every user already in the table.
C25_RegisterThenLogin ==
    /\ \A email \in Emails, p \in RegisterPasswords, full_name \in FullNames,
          salt \in Salts :
        LET out == register(users, email, p, full_name, nextId, salt) IN
        out.res.status = 200
        => /\ login(out.users, sm, email, p, now).status = 200
           /\ \A q \in Passwords \ {p} :
               login(out.users, sm, email, q, now) =
                   HTTPException(401, "Invalid credentials")
    /\ \A u \in users, p \in Passwords :
        verify_password(p, u.password_hash)
        => /\ login(users, sm, u.email, p, now).status = 200
           /\ \A q \in Passwords \ {p} :
               login(users, sm, u.email, q, now).status = 401

\* A registered user has logged in with the registered password, and another
\* password is there to be tried.
C25_Witness ==
    \E u \in users, p \in Passwords, q \in Passwords :
        /\ verify_password(p, u.password_hash)
        /\ q # p
        /\ \E t \in issued : t.payload.sub = UUIDStr(u.id)

\* C26: verify_password returns a boolean for every plaintext and every
\* stored string and never raises; for a string that is no hash it returns
\* false.
C26_VerifyPasswordTotal ==
    \A p \in Passwords,
       h \in MalformedHashes \cup {u.password_hash : u \in users} :
        /\ ~verify_password_raises(p, h)
        /\ verify_password(p, h) \in BOOLEAN
        /\ h \in MalformedHashes => ~verify_password(p, h)

\* C30: a refresh_tokens call that fails returns no token and leaves both
\* revocation sets as they were.
C30_FailedRefreshChangesNothing ==
    \A t \in Presentable :
        LET out == refresh_tokens(users, sm, t, now) IN
        out.res.status # 200
        => /\ out.sm = sm
           /\ out.res.access_token = EmptyToken
           /\ out.res.refresh_token = EmptyToken

\* Failing presentations of several kinds exist at once: an expired token of
\* the service, and a valid unrevoked refresh token whose user was removed.
C30_Witness ==
    /\ \E t \in issued : ~ValidNow(t)
    /\ \E t \in issued :
        /\ C22_OrphanRefreshToken(t)
        /\ t \notin sm.blacklist_refresh
        /\ refresh_tokens(users, sm, t, now).res.status = 401

\* C27: for every task and every owner_id other than the task's owner,
\* get_task_by_id, update_task, delete_task, mark_task_as_done and
\* mark_task_as_undone fail with 404 "Task not found" and leave the table as
\* it is; get_tasks and get_task_stats return and count only rows of the
\* given owner.
C27_NoCrossOwnerAccess ==
    /\ \A t \in tasks, o \in Ids :
        LET unchanged == [res |-> TaskNotFound, tasks |-> tasks] IN
        o # t.owner_id =>
        /\ get_task_by_id(tasks, t.id, o) = TaskNotFound
        /\ \A task_update \in TaskUpdates :
            update_task(tasks, t.id, task_update, o, now) = unchanged
        /\ delete_task(tasks, t.id, o) = unchanged
        /\ mark_task_as_done(tasks, t.id, o, now) = unchanged
        /\ mark_task_as_undone(tasks, t.id, o, now) = unchanged
    /\ \A o \in Ids :
        /\ \A filters \in TaskFilters :
            \A r \in get_tasks(tasks, o, filters) :
                /\ \A i \in DOMAIN r.items : r.items[i].owner_id = o
                /\ r.total <= Cardinality({t \in tasks : t.owner_id = o})
        /\ get_task_stats(tasks, o).total =
               Cardinality({t \in tasks : t.owner_id = o})
        /\ get_task_stats(tasks, o).completed =
               Cardinality({t \in tasks : t.owner_id = o /\ t.is_done})

\* Two users each own a task, one of them not done.
C27_Witness ==
    \E t1 \in tasks, t2 \in tasks :
        /\ t1.owner_id # t2.owner_id
        /\ ~t1.is_done

\* C28: get_user_by_id returns the stored user with the id, or None when
\* there is none; get_user_profile returns that user's profile, or fails
\* with 404 "User not found".
C28_UserLookup ==
    \A user_id \in 1..nextId :
        LET found == {u \in users : u.id = user_id} IN
        IF found = {}
        THEN /\ get_user_by_id(users, user_id) = None
             /\ get_user_profile(users, user_id) =
                    [status |-> 404, detail |-> "User not found", profile |-> None]
        ELSE /\ get_user_by_id(users, user_id) \subseteq found
             /\ get_user_by_id(users, user_id) # None
             /\ \E u \in found :
                 get_user_profile(users, user_id) =
                     [status |-> 200, detail |-> "",
                      profile |-> Some([id |-> user_id, email |-> u.email,
                                        full_name |-> u.full_name])]

\* One id has a user and is answered with the profile; another has none and
\* is answered with the 404.
C28_Witness ==
    /\ \E u \in users :
        /\ get_user_by_id(users, u.id) = Some(u)
        /\ get_user_profile(users, u.id).status = 200
    /\ \E user_id \in 1..nextId :
        /\ get_user_by_id(users, user_id) = None
        /\ get_user_profile(users, user_id).status = 404

\* C31: create_access_token and create_refresh_token called with an
\* explicit expires_delta d produce a token with exp = iat + d for every d,
\* a zero-length d included; the configured TTL is used only when
\* expires_delta is omitted.
C31_CustomLifetimeHonoured ==
    \A sub \in 1..nextId, expires_delta \in ExpiresDeltas :
        LET a == create_access_token_delta(sub, expires_delta, now)
            r == create_refresh_token_delta(sub, expires_delta, now) IN
        IF expires_delta = None
        THEN /\ a = create_access_token(sub, now)
             /\ r = create_refresh_token(sub, now)
        ELSE \A d \in expires_delta :
                 /\ a.payload.exp = a.payload.iat + d
                 /\ r.payload.exp = r.payload.iat + d

\* The tokens of a login are accepted: the access token authenticates and
\* the refresh token refreshes.
C32_Accepted(m, res) ==
    /\ get_current_user_id(m, res.access_token, now).status = 200
    /\ refresh_tokens(users, m, res.refresh_token, now).res.status = 200

\* C32: the tokens returned by two separate successful login calls for one
\* user, the first made at any earlier time or in the same second, are
\* different strings, and logout_user or refresh_tokens applied to the tokens
\* of the first login leaves the accepted tokens of the second accepted.
C32_SessionsIndependent ==
    \A email \in Emails, password \in Passwords, t1 \in 0..now :
        LET first == login(users, sm, email, password, t1)
            second == login(users, sm, email, password, now) IN
        (/\ first.status = 200
         /\ second.status = 200
         /\ first.access_token \in issued
         /\ C32_Accepted(sm, second))
        => /\ first.access_token # second.access_token
           /\ first.refresh_token # second.refresh_token
           /\ C32_Accepted(logout_user(sm, first.access_token,
                                        first.refresh_token, now).sm, second)
           /\ C32_Accepted(refresh_tokens(users, sm, first.refresh_token, now).sm,
                           second)

\* C33: for a bearer token that is structurally invalid or expired and is
\* held in the access revocation set, get_current_user_id answers with the
\* status and detail it gives on a manager that does not hold the token.
C33_UnusableTokenHidesRevocation ==
    \A t \in Presentable :
        (~ValidNow(t) /\ t \in sm.blacklist_access)
        => LET without == [sm EXCEPT !.blacklist_access = @ \ {t}] IN
           /\ get_current_user_id(sm, t, now).status =
                  get_current_user_id(without, t, now).status
           /\ get_current_user_id(sm, t, now).detail =
                  get_current_user_id(without, t, now).detail

\* C34: the dict get_task_stats returns has total = completed + pending
\* with completed >= 0 and pending >= 0, and its counts are those of the
\* owner's tasks in one state the table was in during the call, whatever
\* create_task, delete_task or mark_task_as_done ran between its two queries.
C34_StatsConsistentSnapshot ==
    stats.pc = "done"
    => /\ stats.total = stats.completed + stats.pending
       /\ stats.completed >= 0
       /\ stats.pending >= 0
       /\ [total |-> stats.total, completed |-> stats.completed] \in stats.seen

\* The columns of a task row.
TaskFields ==
    {"id", "owner_id", "title", "body", "due_at", "is_done", "created_at",
     "updated_at"}

\* Every field the update sets has the given value in the row.
C35_Given(task_update, row) ==
    /\ "title" \in task_update.set => Some(row.title) = task_update.title
    /\ "body" \in task_update.set => row.body = task_update.body
    /\ "due_at" \in task_update.set => row.due_at = task_update.due_at
    /\ "is_done" \in task_update.set => Some(row.is_done) = task_update.is_done

\* Every field the update does not set, the exempt ones aside, is as before.
C35_Kept(task_update, old, row, exempt) ==
    \A f \in TaskFields \ (task_update.set \cup exempt) : row[f] = old[f]

\* No step changes the owner_id of a task that stays in the table.
C35_OwnerKept ==
    \A t \in tasks : \A t2 \in tasks' : t2.id = t.id => t2.owner_id = t.owner_id

\* C35 as stated: after a successful update_task every field set in the
\* update has the given value, every other field of the task and every other
\* task is unchanged, and no task's owner_id ever changes.
C35_UpdateChangesOnlyProvided ==
    /\ [](\A t \in tasks, task_update \in TaskUpdates :
            LET out == update_task(tasks, t.id, task_update, t.owner_id, now) IN
            out.res.status = 200
            => \E row \in out.res.items :
                /\ row \in out.tasks
                /\ C35_Given(task_update, row)
                /\ C35_Kept(task_update, t, row, {})
                /\ out.tasks \ {row} = tasks \ {t})
    /\ [][C35_OwnerKept]_vars

\* C35, amended: after a successful update_task every field set in the
\* update has the given value; updated_at is the time of the update when a
\* value changed and as before when none did; every other field of the task
\* and every other task is unchanged; no task's owner_id ever changes.
C35_UpdateFrame ==
    /\ [](\A t \in tasks, task_update \in TaskUpdates :
            LET out == update_task(tasks, t.id, task_update, t.owner_id, now) IN
            out.res.status = 200
            => \E row \in out.res.items :
                /\ row \in out.tasks
                /\ C35_Given(task_update, row)
                /\ C35_Kept(task_update, t, row, {"updated_at"})
                /\ row.updated_at =
                       IF \E f \in task_update.set : row[f] # t[f]
                       THEN now ELSE t.updated_at
                /\ out.tasks \ {row} = tasks \ {t})
    /\ [][C35_OwnerKept]_vars

\* A completed task was given a new title by an update at a later second
\* than its creation, beside another task.
C35_Witness ==
    \E t \in tasks, other \in tasks :
        /\ other.id # t.id
        /\ t.title = "u"
        /\ t.is_done
        /\ t.updated_at > t.created_at

\* The tasks of owner o that pass the is_done filter.
C36_Matching(o, filters) ==
    {t \in tasks : /\ t.owner_id = o
                   /\ filters.is_done # None => Some(t.is_done) = filters.is_done}

\* C36: get_tasks(o, filters) returns as total the number of o's tasks that
\* match the is_done filter, whatever limit and offset are, and as items at
\* most limit of those tasks: the ones at positions offset + 1, offset + 2,
\* ... of a listing of the matching tasks by created_at, newest first.
C36_PagingKeepsTotal ==
    \A o \in Ids : \A filters \in TaskFilters :
        LET matching == C36_Matching(o, filters)
            rest == Cardinality(matching) - filters.offset
        IN \A r \in get_tasks(tasks, o, filters) :
            /\ r.total = Cardinality(matching)
            /\ Len(r.items) <= filters.limit
            /\ Len(r.items) = IF rest > filters.limit THEN filters.limit
                              ELSE IF rest > 0 THEN rest ELSE 0
            /\ \A i \in DOMAIN r.items :
                /\ r.items[i] \in matching
                /\ \A j \in DOMAIN r.items : i # j => r.items[i] # r.items[j]
                /\ Cardinality({t \in matching :
                                   t.created_at > r.items[i].created_at})
                       <= filters.offset + i - 1
                /\ Cardinality({t \in matching :
                                   t.created_at >= r.items[i].created_at})
                       >= filters.offset + i

\* One owner has a completed and a pending task created at different
\* seconds, so that the filter, the order and a page of one row all matter.
C36_Witness ==
    \E t1 \in tasks, t2 \in tasks :
        /\ t1.owner_id = t2.owner_id
        /\ t1.created_at < t2.created_at
        /\ t1.is_done
        /\ ~t2.is_done
        /\ \E r \in get_tasks(tasks, t1.owner_id,
                               [is_done |-> None, limit |-> 1, offset |-> 1]) :
            r.total = 2 /\ r.items = <<t1>>

====
